---- MODULE Spec2Model ----
(***************************************************************************)
(* Model of the greeter package (src/py/packages/greeter/src/greeter/      *)
(* __init__.py).  The package imports hello from the example package as    *)
(* example_hello, sets __version__ = "0.1.0" and defines                  *)
(*     def greet() -> str: return f"Greeter says: {example_hello()}"      *)
(* Python strings are modelled as sequences of one-character strings.      *)
(* The example package is external: whether it resolves, what hello()      *)
(* returns or raises and whether hello() prints are nondeterministic.      *)
(***************************************************************************)
EXTENDS Integers, Sequences, FiniteSets, TLC

VARIABLES
    available,      \* environment: the example package (and its hello) resolves
    loaded,         \* the greeter module has been executed and is in sys.modules
    __version__,    \* module global __version__ (meaningful once loaded)
    example_hello,  \* module global example_hello: what the name is bound to
    stdout,         \* number of lines written to standard output so far
    ncalls,         \* number of greet() calls begun so far (all callers)
    pc,             \* per caller: where the caller is
    helloCalls,     \* per caller: example_hello() invocations of the current greet() call
    hval,           \* per caller: value example_hello() returned to the current call
    hexc,           \* per caller: exception example_hello() raised in the current call
    result,         \* per caller: what the caller observed (return value or exception)
    prev,           \* per caller: hello value and outcome of the caller's previous greet() call
    peak            \* the largest number of greet() calls that were running at the same time

vars == <<available, loaded, __version__, example_hello, stdout, ncalls,
          pc, helloCalls, hval, hexc, result, prev, peak>>

modvars == <<loaded, __version__, example_hello>>

\* ---------------------------------------------------------------- bounds
NumCallers == 2     \* callers (threads) using the package
MaxCalls == 2       \* greet() calls begun in one behaviour
MaxLen == 1         \* length of the strings hello() returns over Alphabet
MaxOut == 1         \* lines hello() may print in one behaviour

Callers == 1..NumCallers

\* ---------------------------------------------------------------- Python values
PyStr(s) == [type |-> "str", s |-> s, n |-> 0]
PyInt(n) == [type |-> "int", s |-> <<>>, n |-> n]
PyNone == [type |-> "NoneType", s |-> <<>>, n |-> 0]
\* an object whose __format__ raises
PyBadFormat == [type |-> "badformat", s |-> <<>>, n |-> 0]
\* no value (hello() has not returned in the current call)
NoValue == [type |-> "<none>", s |-> <<>>, n |-> 0]

Alphabet == {"a"}
World == <<"w", "o", "r", "l", "d">>

RECURSIVE StringsUpTo(_)
StringsUpTo(k) ==
    IF k = 0 THEN {<<>>}
    ELSE LET shorter == StringsUpTo(k - 1)
         IN shorter \cup {Append(s, ch) : s \in shorter, ch \in Alphabet}

\* what the external hello() may return: strings (its contract) ...
HelloStrings == {PyStr(s) : s \in StringsUpTo(MaxLen) \cup {World}}
\* ... and, when it breaks its contract, values that are not strings
HelloNonStrings == {PyInt(-15), PyNone, PyBadFormat}
HelloValues == HelloStrings \cup HelloNonStrings
\* what the external hello() may raise
HelloExceptions == {"ValueError", "ImportError"}

\* ---------------------------------------------------------------- outcomes
NoResult == [kind |-> "none", value |-> <<>>, exc |-> "", site |-> ""]
Returned(s) == [kind |-> "return", value |-> s, exc |-> "", site |-> "greet"]
Raised(e, where) == [kind |-> "raise", value |-> <<>>, exc |-> e, site |-> where]
NoPrev == [hval |-> NoValue, result |-> NoResult]

\* ---------------------------------------------------------------- line 5
\* (variant: the version string left empty)
VersionLiteral_empty == <<>>

\* the string literal "0.1.0"
VersionLiteral == <<"0", ".", "1", ".", "0">>

\* ---------------------------------------------------------------- line 10: the f-string
\* (variant: the literal without its trailing space)
Prefix_nospace == <<"G", "r", "e", "e", "t", "e", "r", " ", "s", "a", "y", "s", ":">>

\* the literal part of the f-string
Prefix == <<"G", "r", "e", "e", "t", "e", "r", " ", "s", "a", "y", "s", ":", " ">>

Digit(d) ==
    CASE d = 0 -> "0" [] d = 1 -> "1" [] d = 2 -> "2" [] d = 3 -> "3" [] d = 4 -> "4"
      [] d = 5 -> "5" [] d = 6 -> "6" [] d = 7 -> "7" [] d = 8 -> "8" [] d = 9 -> "9"

RECURSIVE DecimalDigits(_)
DecimalDigits(n) ==
    IF n < 10 THEN <<Digit(n)>>
    ELSE Append(DecimalDigits(n \div 10), Digit(n % 10))

\* int.__format__(n, "") = str(n)
IntStr(n) == IF n < 0 THEN <<"-">> \o DecimalDigits(-n) ELSE DecimalDigits(n)

\* (variant: anything that is not a str is rejected)
FormatOk_strict(v) == v.type = "str"

\* format(v, "") succeeds
FormatOk(v) == v.type # "badformat"

\* (variant: the replacement field written {...!r}, so that a str is quoted)
FormatValue_repr(v) ==
    CASE v.type = "str" -> <<"'">> \o v.s \o <<"'">>
      [] v.type = "int" -> IntStr(v.n)
      [] v.type = "NoneType" -> <<"N", "o", "n", "e">>

\* format(v, ""), the conversion the replacement field {...} applies
FormatValue(v) ==
    CASE v.type = "str" -> v.s
      [] v.type = "int" -> IntStr(v.n)
      [] v.type = "NoneType" -> <<"N", "o", "n", "e">>

\* (variant: the greeting depends on how many calls were made before)
FString_counting(v) ==
    IF ncalls > 1 THEN Prefix \o FormatValue(v) \o <<"!">> ELSE Prefix \o FormatValue(v)

\* the value of f"Greeter says: {v}"
FString(v) == Prefix \o FormatValue(v)

\* ---------------------------------------------------------------- initial state
Init ==
    /\ available \in BOOLEAN
    /\ loaded = FALSE
    /\ __version__ = <<>>
    /\ example_hello = "<unbound>"
    /\ stdout = 0
    /\ ncalls = 0
    /\ pc = [c \in Callers |-> "start"]
    /\ helloCalls = [c \in Callers |-> 0]
    /\ hval = [c \in Callers |-> NoValue]
    /\ hexc = [c \in Callers |-> ""]
    /\ result = [c \in Callers |-> NoResult]
    /\ prev = [c \in Callers |-> NoPrev]
    /\ peak = 0

callvars == <<ncalls, helloCalls, hval, hexc, prev, peak>>

InFlight == {"in_hello", "hello_returned", "hello_raised"}
Done == {"returned", "raised"}

\* the callers whose greet() call is running, c apart
Running(c) == {d \in Callers \ {c} : pc[d] \in InFlight}

\* ---------------------------------------------------------------- import greeter
\* First import, dependency resolves: lines 3, 5 and 8 run.
ImportFresh(c) ==
    /\ pc[c] = "start"
    /\ ~loaded
    /\ available
    /\ loaded' = TRUE
    /\ example_hello' = "example.hello"
    /\ __version__' = VersionLiteral
    /\ pc' = [pc EXCEPT ![c] = "ready"]
    /\ UNCHANGED <<available, stdout, result, callvars>>

\* (variant: the import resolves hello lazily, so the module loads without it)
ImportFail_lazy(c) ==
    /\ pc[c] = "start"
    /\ ~loaded
    /\ ~available
    /\ loaded' = TRUE
    /\ __version__' = VersionLiteral
    /\ pc' = [pc EXCEPT ![c] = "ready"]
    /\ UNCHANGED <<available, example_hello, stdout, result, callvars>>

\* First import, dependency does not resolve: line 3 raises, nothing below it runs,
\* the module is not kept in sys.modules and the importer gets the ImportError.
ImportFail(c) ==
    /\ pc[c] = "start"
    /\ ~loaded
    /\ ~available
    /\ pc' = [pc EXCEPT ![c] = "import_raised"]
    /\ result' = [result EXCEPT ![c] = Raised("ImportError", "import")]
    /\ UNCHANGED <<available, modvars, stdout, callvars>>

\* Later import: the module is found in sys.modules and is not executed again.
ImportCached(c) ==
    /\ pc[c] = "start"
    /\ loaded
    /\ pc' = [pc EXCEPT ![c] = "ready"]
    /\ UNCHANGED <<available, modvars, stdout, result, callvars>>

\* ---------------------------------------------------------------- greet()
\* (variant: hello is invoked a second time, as a retry would)
GreetCall_twice(c) ==
    /\ pc[c] \in {"ready", "returned", "raised"}
    /\ ncalls < MaxCalls
    /\ example_hello = "example.hello"
    /\ ncalls' = ncalls + 1
    /\ prev' = [prev EXCEPT ![c] = [hval |-> hval[c], result |-> result[c]]]
    /\ helloCalls' = [helloCalls EXCEPT ![c] = 2]
    /\ hval' = [hval EXCEPT ![c] = NoValue]
    /\ hexc' = [hexc EXCEPT ![c] = ""]
    /\ result' = [result EXCEPT ![c] = NoResult]
    /\ peak' = IF Cardinality(Running(c)) + 1 > peak THEN Cardinality(Running(c)) + 1 ELSE peak
    /\ pc' = [pc EXCEPT ![c] = "in_hello"]
    /\ UNCHANGED <<available, modvars, stdout>>

\* A caller calls greet(); the body looks example_hello up and invokes it.
GreetCall(c) ==
    /\ pc[c] \in {"ready", "returned", "raised"}
    /\ ncalls < MaxCalls
    /\ example_hello = "example.hello"
    /\ ncalls' = ncalls + 1
    /\ prev' = [prev EXCEPT ![c] = [hval |-> hval[c], result |-> result[c]]]
    /\ helloCalls' = [helloCalls EXCEPT ![c] = 1]
    /\ hval' = [hval EXCEPT ![c] = NoValue]
    /\ hexc' = [hexc EXCEPT ![c] = ""]
    /\ result' = [result EXCEPT ![c] = NoResult]
    /\ peak' = IF Cardinality(Running(c)) + 1 > peak THEN Cardinality(Running(c)) + 1 ELSE peak
    /\ pc' = [pc EXCEPT ![c] = "in_hello"]
    /\ UNCHANGED <<available, modvars, stdout>>

\* The external hello() returns v to the frame of the greet() call that invoked it,
\* having printed out lines.
HelloReturn(c, v, out) ==
    /\ pc[c] = "in_hello"
    /\ stdout + out <= MaxOut
    /\ stdout' = stdout + out
    /\ hval' = [hval EXCEPT ![c] = v]
    /\ pc' = [pc EXCEPT ![c] = "hello_returned"]
    /\ UNCHANGED <<available, modvars, ncalls, helloCalls, hexc, result, prev, peak>>

\* The external hello() raises e.
HelloRaise(c, e) ==
    /\ pc[c] = "in_hello"
    /\ hexc' = [hexc EXCEPT ![c] = e]
    /\ pc' = [pc EXCEPT ![c] = "hello_raised"]
    /\ UNCHANGED <<available, modvars, stdout, ncalls, helloCalls, hval, result, prev, peak>>

\* (variant: greet() prints a line before it returns)
GreetReturn_logging(c) ==
    /\ pc[c] = "hello_returned"
    /\ IF FormatOk(hval[c])
       THEN /\ result' = [result EXCEPT ![c] = Returned(FString(hval[c]))]
            /\ pc' = [pc EXCEPT ![c] = "returned"]
       ELSE /\ result' = [result EXCEPT ![c] = Raised("FormatError", "greet")]
            /\ pc' = [pc EXCEPT ![c] = "raised"]
    /\ stdout' = stdout + 1
    /\ UNCHANGED <<available, modvars, callvars>>

\* (variant: hello's value is kept in a module global shared by all callers, so a
\* call formats the value another running call has put there)
GreetReturn_shared(c) ==
    /\ pc[c] = "hello_returned"
    /\ LET others == {d \in Callers \ {c} : pc[d] = "hello_returned"}
           slot == IF others = {} THEN hval[c] ELSE hval[CHOOSE d \in others : TRUE]
       IN IF FormatOk(slot)
          THEN /\ result' = [result EXCEPT ![c] = Returned(FString(slot))]
               /\ pc' = [pc EXCEPT ![c] = "returned"]
          ELSE /\ result' = [result EXCEPT ![c] = Raised("FormatError", "greet")]
               /\ pc' = [pc EXCEPT ![c] = "raised"]
    /\ UNCHANGED <<available, modvars, stdout, callvars>>

\* hello() returned: the f-string is formatted and returned; an exception raised by
\* the formatting leaves greet().
GreetReturn(c) ==
    /\ pc[c] = "hello_returned"
    /\ IF FormatOk(hval[c])
       THEN /\ result' = [result EXCEPT ![c] = Returned(FString(hval[c]))]
            /\ pc' = [pc EXCEPT ![c] = "returned"]
       ELSE /\ result' = [result EXCEPT ![c] = Raised("FormatError", "greet")]
            /\ pc' = [pc EXCEPT ![c] = "raised"]
    /\ UNCHANGED <<available, modvars, stdout, callvars>>

\* (variant: a handler turns hello's failure into the bare prefix)
GreetPropagate_fallback(c) ==
    /\ pc[c] = "hello_raised"
    /\ result' = [result EXCEPT ![c] = Returned(Prefix)]
    /\ pc' = [pc EXCEPT ![c] = "returned"]
    /\ UNCHANGED <<available, modvars, stdout, callvars>>

\* hello() raised: greet() has no handler, the exception leaves greet() as it is.
GreetPropagate(c) ==
    /\ pc[c] = "hello_raised"
    /\ result' = [result EXCEPT ![c] = Raised(hexc[c], "greet")]
    /\ pc' = [pc EXCEPT ![c] = "raised"]
    /\ UNCHANGED <<available, modvars, stdout, callvars>>

\* ---------------------------------------------------------------- specification
Next ==
    \E c \in Callers :
        \/ ImportFresh(c)
        \/ ImportFail(c)
        \/ ImportCached(c)
        \/ GreetCall(c)
        \/ \E v \in HelloValues, out \in {0, 1} : HelloReturn(c, v, out)
        \/ \E e \in HelloExceptions : HelloRaise(c, e)
        \/ GreetReturn(c)
        \/ GreetPropagate(c)

Spec == Init /\ [][Next]_vars

\* what carries a running greet() call of caller c forward: hello() returning (or
\* raising), then greet() returning or propagating
Progress(c) ==
    \/ \E v \in HelloValues : HelloReturn(c, v, 0)
    \/ \E e \in HelloExceptions : HelloRaise(c, e)
    \/ GreetReturn(c)
    \/ GreetPropagate(c)

\* Threads are scheduled fairly and the hello() invocation is assumed to terminate.
FairSpec == Spec /\ \A c \in Callers : WF_vars(Progress(c))

TypeOK ==
    /\ available \in BOOLEAN
    /\ loaded \in BOOLEAN
    /\ example_hello \in {"<unbound>", "example.hello"}
    /\ stdout \in 0..MaxOut
    /\ ncalls \in 0..MaxCalls
    /\ \A c \in Callers :
        /\ pc[c] \in {"start", "import_raised", "ready", "in_hello",
                      "hello_returned", "hello_raised", "returned", "raised"}
        /\ helloCalls[c] \in 0..1
        /\ hval[c] \in HelloValues \cup {NoValue}
        /\ hexc[c] \in HelloExceptions \cup {""}
        /\ result[c].kind \in {"none", "return", "raise"}

\* ---------------------------------------------------------------- properties
\* the 14 characters "Greeter says: ", written out independently of the model
GreeterSays == <<"G", "r", "e", "e", "t", "e", "r", " ", "s", "a", "y", "s", ":", " ">>

\* C1: whenever greet() completes after hello() returned a string s, it returns exactly
\* "Greeter says: " followed by s, character for character; "" gives "Greeter says: "
\* and "world" gives "Greeter says: world".
C1_ExactConcatenation ==
    \A c \in Callers :
        (pc[c] \in Done /\ hval[c].type = "str") =>
            /\ result[c].kind = "return"
            /\ Len(result[c].value) = 14 + Len(hval[c].s)
            /\ \A i \in 1..14 : result[c].value[i] = GreeterSays[i]
            /\ \A i \in 1..Len(hval[c].s) : result[c].value[14 + i] = hval[c].s[i]
            /\ (hval[c].s = <<>> => result[c].value = GreeterSays)
            /\ (hval[c].s = <<"w", "o", "r", "l", "d">> =>
                    result[c].value = <<"G", "r", "e", "e", "t", "e", "r", " ", "s", "a",
                                        "y", "s", ":", " ", "w", "o", "r", "l", "d">>)

C1_Witness ==
    \E c, d \in Callers :
        /\ pc[c] = "returned" /\ hval[c] = PyStr(World)
        /\ pc[d] = "returned" /\ hval[d] = PyStr(<<>>)

\* C2: when the hello() invocation of a greet() call raised, the call ends by raising
\* that same exception: no string is returned, hello() was invoked once only, and the
\* exception the caller observes is the one hello() raised.
C2_FailurePropagates ==
    \A c \in Callers :
        /\ (hexc[c] # "" /\ pc[c] \in Done) =>
              /\ pc[c] = "raised"
              /\ result[c] = [kind |-> "raise", value |-> <<>>, exc |-> hexc[c], site |-> "greet"]
              /\ helloCalls[c] = 1
        /\ (hexc[c] # "" /\ pc[c] \notin Done) => (pc[c] = "hello_raised" /\ result[c].kind = "none")

C2_Witness ==
    \E c \in Callers : pc[c] = "raised" /\ hexc[c] = "ValueError" /\ result[c].exc = "ValueError"

\* C3 as stated: when hello cannot be resolved, the resolution failure is what a greet()
\* call fails with, i.e. it is observed by a caller of greet().
C3_Original ==
    \A c \in Callers :
        (~available /\ result[c].kind = "raise" /\ result[c].exc = "ImportError") =>
            (result[c].site = "greet" /\ pc[c] = "raised")

\* C3 (amended): when hello cannot be resolved, importing the package fails with the
\* import error, which the importer observes; the module is not loaded, greet() is never
\* called, and every failure observed from a greet() call arises with hello resolved.
C3_ImportFails ==
    /\ ~available =>
          /\ ~loaded
          /\ example_hello = "<unbound>"
          /\ ncalls = 0
          /\ \A c \in Callers :
                /\ pc[c] \in {"start", "import_raised"}
                /\ (pc[c] = "import_raised") <=> (result[c] = Raised("ImportError", "import"))
                /\ (pc[c] = "start") <=> (result[c] = NoResult)
    /\ \A c \in Callers : (result[c].site = "greet" \/ pc[c] \in InFlight \cup Done) => available

C3_Witness ==
    \E c \in Callers :
        ~available /\ pc[c] = "import_raised" /\ result[c].exc = "ImportError"

\* C4: every value greet() returns, whatever hello() returned and however many calls were
\* made before, begins with the 14 characters "Greeter says: ".
C4_PrefixAlways ==
    \A c \in Callers :
        \A r \in {result[c], prev[c].result} :
            r.kind = "return" =>
                /\ Len(r.value) >= 14
                /\ SubSeq(r.value, 1, 14) = GreeterSays
                /\ r.value[14] = " "

C4_Witness ==
    \E c \in Callers :
        /\ ncalls >= 2
        /\ pc[c] = "returned" /\ hval[c].type = "int"
        /\ prev[c].result.kind = "return"

\* C5: once the package is loaded __version__ is "0.1.0" (not empty), and no step
\* taken after that, a greet() call that returns or fails included, changes it.
C5_VersionFixed ==
    [][/\ loaded' => (__version__' = <<"0", ".", "1", ".", "0">> /\ Len(__version__') > 0)
       /\ loaded => (loaded' /\ __version__' = __version__)]_vars

C5_Witness ==
    \E c, d \in Callers :
        /\ loaded /\ __version__ = <<"0", ".", "1", ".", "0">>
        /\ pc[c] = "raised" /\ pc[d] = "returned"

\* C6: a caller's second greet() call in succession, in which hello() returned the same
\* value as in the first, ends with the same outcome (the identical string).
C6_Idempotent ==
    \A c \in Callers :
        (pc[c] \in Done /\ hval[c] # NoValue /\ hval[c] = prev[c].hval) =>
            result[c] = prev[c].result

C6_Witness ==
    \E c \in Callers :
        /\ pc[c] = "returned" /\ prev[c].result.kind = "return"
        /\ hval[c] = PyStr(World) /\ prev[c].hval = PyStr(World)

\* a step of greet()'s own code for caller c: the call and lookup, or what follows the
\* return of hello() (formatting and returning, or propagating)
GreetStep(c) ==
    /\ pc'[c] # pc[c]
    /\ pc'[c] = "in_hello" \/ pc[c] \in {"hello_returned", "hello_raised"}

\* C7: the steps greet() itself takes, whether the call returns or fails, change neither
\* the module state (loaded, __version__, the binding of example_hello) nor standard
\* output nor the environment; only hello() may print.
C7_NoSideEffects ==
    [][(\E c \in Callers : GreetStep(c)) =>
          UNCHANGED <<loaded, __version__, example_hello, stdout, available>>]_vars

C7_Witness ==
    \E c, d \in Callers :
        /\ pc[c] = "returned" /\ pc[d] = "raised" /\ stdout > 0
        /\ loaded /\ example_hello = "example.hello"

\* C8: when greet() calls of several callers overlap, each caller gets "Greeter says: "
\* followed by the value its own hello() invocation returned, and not the greeting of
\* a different value returned to another caller.
C8_OwnValue ==
    \A c \in Callers :
        (pc[c] = "returned" /\ hval[c].type = "str") =>
            /\ result[c].value = GreeterSays \o hval[c].s
            /\ \A d \in Callers \ {c} :
                  (hval[d].type = "str" /\ hval[d] # hval[c]) =>
                      result[c].value # GreeterSays \o hval[d].s

C8_Witness ==
    \E c, d \in Callers :
        /\ c # d /\ peak = 2 /\ ncalls = 2
        /\ pc[c] = "returned" /\ pc[d] = "returned"
        /\ hval[c] = PyStr(<<"a">>) /\ hval[d] = PyStr(World)

\* C9 as stated: when hello() returned a value that is not a string, greet() fails.
C9_Original ==
    \A c \in Callers :
        (pc[c] \in Done /\ hval[c] \in HelloNonStrings) => result[c].kind = "raise"

\* C9 (amended): when hello() returned a value that is not a string, greet() formats it
\* as format(value, "") does and returns "Greeter says: " followed by that text (-15
\* gives "-15", None gives "None"); it fails only when the formatting itself raises,
\* with the formatting's exception.
C9_FormatsNonStrings ==
    \A c \in Callers :
        (pc[c] \in Done /\ hval[c] \in HelloNonStrings) =>
            /\ hval[c] = PyInt(-15) => result[c] = Returned(GreeterSays \o <<"-", "1", "5">>)
            /\ hval[c] = PyNone => result[c] = Returned(GreeterSays \o <<"N", "o", "n", "e">>)
            /\ hval[c] = PyBadFormat => result[c] = Raised("FormatError", "greet")

C9_Witness ==
    \E c, d \in Callers :
        /\ pc[c] = "returned" /\ hval[c] = PyInt(-15)
        /\ pc[d] = "raised" /\ hval[d] = PyBadFormat

\* C10: a greet() call that is running or has ended has invoked hello() exactly once,
\* and every running call ends, in a returned string or a raised exception.
C10_OneCallThenEnds ==
    /\ [](\A c \in Callers :
            /\ pc[c] \in InFlight \cup Done => helloCalls[c] = 1
            /\ pc[c] \in Done => result[c].kind \in {"return", "raise"})
    /\ \A c \in Callers : (pc[c] = "in_hello") ~> (pc[c] \in Done)

C10_Witness ==
    \E c \in Callers :
        /\ pc[c] = "raised" /\ helloCalls[c] = 1 /\ hexc[c] = "ImportError"
        /\ prev[c].result.kind = "return"
====
